---- MODULE Spec2Model ----
(***************************************************************************)
(* pip: layered option resolution (defaults, config file, environment,     *)
(* command line), per-command parser construction, and the execution       *)
(* controller Command.main with its logging, precondition check and        *)
(* exception-to-exit-code mapping.                                         *)
(*                                                                         *)
(* One behaviour is one process: pip.main(argv) under one config file, one *)
(* environment and one file system.                                        *)
(***************************************************************************)
EXTENDS Integers, Sequences, FiniteSets, TLC

(***************************************************************************)
(* Bounds of the model.                                                    *)
(*   MaxInputs : command-line option tokens plus config/env entries that   *)
(*               one invocation is given                                   *)
(*   MaxStatus : the largest integer status a command body returns         *)
(***************************************************************************)
MaxInputs == 3
MaxStatus == 1

(***************************************************************************)
(* Program constants.                                                      *)
(***************************************************************************)
SUCCESS == 0
ERROR == 1
UNKNOWN_ERROR == 2
VIRTUALENV_NOT_FOUND == 3
ConfigErrorExit == 3
PipErrorExit == 1
DefaultTimeout == 15

(***************************************************************************)
(* Python values.  Numbers (int, float, bool) share one tag because Python *)
(* compares them by value; None, strings and lists have their own.         *)
(***************************************************************************)
PyNone == [t |-> "none", n |-> 0, s |-> "", l |-> <<>>]
Num(k) == [t |-> "num", n |-> k, s |-> "", l |-> <<>>]
Str(x) == [t |-> "str", n |-> 0, s |-> x, l |-> <<>>]
List(q) == [t |-> "list", n |-> 0, s |-> "", l |-> q]
Truthy(v) ==
    (v.t = "num" /\ v.n # 0) \/ (v.t = "str" /\ v.s # "") \/ (v.t = "list" /\ v.l # <<>>)
PyOr(a, b) == IF Truthy(a) THEN a ELSE b

EmptyDict == [k \in {} |-> ""]
\* dict.update: the entries of b replace those of a
DictUpdate(a, b) == [k \in DOMAIN a \cup DOMAIN b |-> IF k \in DOMAIN b THEN b[k] ELSE a[k]]

(***************************************************************************)
(* The option registry of create_main_parser.  An option is identified by  *)
(* its destination; type "" is optparse's type None.                       *)
(***************************************************************************)
default_log_file == "pip.log"

Dests ==
    {"help", "version", "verbose", "quiet", "log", "proxy", "timeout",
     "log_explicit_levels", "require_venv", "log_file", "no_input",
     "default_vcs", "skip_requirements_regex"}

\* a command's own options.  The commands (pip.commands) add them to
\* Command.command_group; one append-type option with a built-in default
\* sequence stands for them
CommandDests == {"command_list"}
CommandTitle == "Command options"
command_opts == <<"command_list">>

Opt(strings, action, type, default) ==
    [strings |-> strings, action |-> action, type |-> type, default |-> default]

OptionTable ==
    [d \in Dests \cup CommandDests |->
        CASE d = "help" -> Opt({"-h", "--help"}, "store_true", "", PyNone)
          [] d = "version" -> Opt({"-V", "--version"}, "store_true", "", PyNone)
          [] d = "verbose" -> Opt({"-v", "--verbose"}, "count", "", Num(0))
          [] d = "quiet" -> Opt({"-q", "--quiet"}, "count", "", Num(0))
          [] d = "log" -> Opt({"--log"}, "store", "string", PyNone)
          [] d = "proxy" -> Opt({"--proxy"}, "store", "string", Str(""))
          [] d = "timeout" ->
                Opt({"--timeout", "--default-timeout"}, "store", "float", Num(DefaultTimeout))
          [] d = "log_explicit_levels" ->
                Opt({"--log-explicit-levels"}, "store_true", "", Num(0))
          [] d = "require_venv" ->
                Opt({"--require-virtualenv", "--require-venv"}, "store_true", "", Num(0))
          [] d = "log_file" ->
                Opt({"--local-log", "--log-file"}, "store", "string", Str(default_log_file))
          [] d = "no_input" -> Opt({"--no-input"}, "store_true", "", Num(0))
          [] d = "default_vcs" -> Opt({"--default-vcs"}, "store", "string", Str(""))
          [] d = "command_list" ->
                Opt({"--command-list"}, "append", "string", List(<<"builtin">>))
          [] OTHER -> Opt({"--skip-requirements-regex"}, "store", "string", Str(""))]

\* the options of the 'General options' group and of the parser itself, in order
general_opts == <<"help", "version", "verbose", "quiet", "log", "proxy", "timeout">>
main_option_list ==
    <<"log_explicit_levels", "require_venv", "log_file", "no_input",
      "default_vcs", "skip_requirements_regex">>

GeneralTitle == "General options"
\* the container an option object belongs to: a parser, or a group of a parser
GroupOf(parserName, title) == <<parserName, title>>
ParserItself(parserName) == <<parserName, "">>

Range(seq) == {seq[i] : i \in 1..Len(seq)}

RECURSIVE Concat(_)
Concat(seqs) == IF seqs = <<>> THEN <<>> ELSE Head(seqs) \o Concat(Tail(seqs))

\* OptionParser._get_all_options: the parser's own options, then each group's
get_all_options(parser) ==
    parser.option_list \o Concat([i \in 1..Len(parser.option_groups) |->
                                     parser.option_groups[i].option_list])

\* OptionParser.get_option: the option registered under an option string, "" for None
get_option(parser, opt_str) ==
    LET found == {d \in Range(get_all_options(parser)) : opt_str \in OptionTable[d].strings}
    IN IF found = {} THEN "" ELSE CHOOSE d \in found : TRUE

\* OptionContainer.add_option's handling of the destination's default
DefaultsOf(dests) == [d \in dests |-> OptionTable[d].default]

\* the parser create_main_parser returns
create_main_parser ==
    [name |-> "global",
     option_list |-> main_option_list,
     option_groups |-> <<[title |-> GeneralTitle, option_list |-> general_opts]>>,
     defaults |-> DefaultsOf(Dests),
     interspersed |-> FALSE]

\* the option objects as create_main_parser leaves them
InitialOptionObjects ==
    [d \in Dests |->
        [nargs |-> IF OptionTable[d].type # "" THEN Num(1) ELSE PyNone,
         container |-> IF d \in Range(general_opts)
                       THEN GroupOf("global", GeneralTitle)
                       ELSE ParserItself("global")]]

NoParser ==
    [name |-> "", option_list |-> <<>>, option_groups |-> <<>>,
     defaults |-> [d \in {} |-> PyNone], interspersed |-> TRUE]

(***************************************************************************)
(* Inputs: the command line, the config file and the environment.          *)
(***************************************************************************)
Commands == {"install"}

\* the words given in the command's place: the registered name, the same in
\* another case, a misspelling close to it, a word close to nothing
CommandWords == {"install", "Install", "instal", "frobnicate"}
\* str.lower() on those words
lower(word) == IF word = "Install" THEN "install" ELSE word
\* get_similar_commands: the closest registered name, "" for none
get_similar_commands(name) == IF name = "instal" THEN "install" ELSE ""

\* an option token of the command line: its option string and explicit value
TokenTable ==
    [tok \in {"-v", "-q", "--timeout=30", "--require-venv", "--log=user.log"} |->
        CASE tok = "-v" -> [opt |-> "-v", value |-> ""]
          [] tok = "-q" -> [opt |-> "-q", value |-> ""]
          [] tok = "--timeout=30" -> [opt |-> "--timeout", value |-> "30"]
          [] tok = "--require-venv" -> [opt |-> "--require-venv", value |-> ""]
          [] OTHER -> [opt |-> "--log", value |-> "user.log"]]
Tokens == DOMAIN TokenTable

\* config-file keys, and the environment variable of each
CfgKeys == {"verbose", "timeout", "proxy", "require-virtualenv", "log", "command-list"}
EnvVarOf(key) ==
    CASE key = "verbose" -> "PIP_VERBOSE"
      [] key = "timeout" -> "PIP_TIMEOUT"
      [] key = "proxy" -> "PIP_PROXY"
      [] key = "require-virtualenv" -> "PIP_REQUIRE_VIRTUALENV"
      [] key = "command-list" -> "PIP_COMMAND_LIST"
      [] OTHER -> "PIP_LOG"
CfgVals == {"", "1", "x"}
\* the values a list-valued key is given: empty, one word, two words
ListVals == {"", "x", "x y"}
CfgValsOf(key) == IF key = "command-list" THEN ListVals ELSE CfgVals

VARIABLES
    argv,             \* sys.argv[1:]: global option tokens, the command name, command option tokens
    config_file,      \* the config file: section name -> (key -> value)
    environ,          \* os.environ restricted to PIP_* variables: name -> value
    pc,               \* the statement the process is at
    option_objects,   \* the optparse.Option objects: destination -> mutable attributes
    main_parser,      \* the parser of create_main_parser
    cmd_parser,       \* Command.parser (NoParser before the command is instantiated)
    initial_options,  \* the Values of the global parse
    options,          \* the Values of the command parse, merged in place by merge_options
    args,             \* the arguments left to parse
    logger_consumers, \* logger.consumers: the sinks, in the order they were registered
    complete_log,     \* the in-memory list that captures every log line
    log_fp,           \* the user's --log file object: "none", "open" or "closed"
    net,              \* the process-wide socket timeout and proxy, with how often each was set
    virtual_env,      \* os.environ.get('VIRTUAL_ENV'): "unread", "set" or "unset"
    outcome,          \* how the command body ended
    exit,             \* Command.main's local exit
    store_log,        \* Command.main's local store_log
    files,            \* the file system: path -> what the file held before the run and holds now
    result,           \* how the process ended: returned a code, sys.exit, or an uncaught exception
    stderr,           \* sys.stderr: the messages written to it
    resolutions,      \* what each get_default_values call on a parser returned, in call order
    dist,             \* the installed distribution FrozenRequirement.from_dist is given
    frozen,           \* the FrozenRequirement built, or the exception raised instead
    rendered          \* str() of the FrozenRequirement

(***************************************************************************)
(* Config Resolver: ConfigOptionParser.update_defaults and its helpers.    *)
(***************************************************************************)
\* distutils.util.strtobool
TrueWords == {"y", "yes", "t", "true", "on", "1"}
FalseWords == {"n", "no", "f", "false", "off", "0"}
strtobool(val) ==
    IF val \in TrueWords THEN [raised |-> "", v |-> Num(1)]
    ELSE IF val \in FalseWords THEN [raised |-> "", v |-> Num(0)]
    ELSE [raised |-> "ValueError", v |-> PyNone]

\* float(): the numerals of the model and their values
FloatLiterals == ("0" :> 0) @@ ("1" :> 1) @@ ("30" :> 30)

\* Option.check_value: the type checker of the option's type
check_value(d, value) ==
    IF OptionTable[d].type = "float" /\ value.t = "str"
    THEN IF value.s \in DOMAIN FloatLiterals
         THEN [raised |-> "", v |-> Num(FloatLiterals[value.s])]
         ELSE [raised |-> "OptionValueError", v |-> PyNone]
    ELSE [raised |-> "", v |-> value]

\* Option.convert_value, for an option whose nargs is 1
convert_value(d, value) ==
    IF value = PyNone THEN [raised |-> "", v |-> PyNone] ELSE check_value(d, value)

\* ConfigOptionParser.normalize_keys on one key: '_' to '-', then the '--' prefix
normalize_key(key) ==
    CASE key \in {"require_virtualenv", "require-virtualenv"} -> "--require-virtualenv"
      [] key \in {"command_list", "command-list"} -> "--command-list"
      [] key = "verbose" -> "--verbose"
      [] key = "timeout" -> "--timeout"
      [] key = "proxy" -> "--proxy"
      [] key = "log" -> "--log"
      [] OTHER -> key
normalize_keys(items) ==
    [k \in {normalize_key(r) : r \in DOMAIN items} |->
        items[CHOOSE r \in DOMAIN items : normalize_key(r) = k]]

\* ConfigOptionParser.get_config_section
get_config_section(file, name) == IF name \in DOMAIN file THEN file[name] ELSE EmptyDict

\* ConfigOptionParser.get_environ_vars: strip the PIP_ prefix and lowercase
EnvKeyOf(var) ==
    CASE var = "PIP_VERBOSE" -> "verbose"
      [] var = "PIP_TIMEOUT" -> "timeout"
      [] var = "PIP_PROXY" -> "proxy"
      [] var = "PIP_REQUIRE_VIRTUALENV" -> "require_virtualenv"
      [] var = "PIP_COMMAND_LIST" -> "command_list"
      [] OTHER -> "log"
get_environ_vars(env) ==
    [k \in {EnvKeyOf(var) : var \in DOMAIN env} |->
        env[CHOOSE var \in DOMAIN env : EnvKeyOf(var) = k]]

\* update_defaults, lines 95-100: the merged config dictionary of a parser
merged_config(parser, file, env) ==
    LET sections == DictUpdate(normalize_keys(get_config_section(file, "global")),
                               normalize_keys(get_config_section(file, parser.name)))
    IN DictUpdate(sections, normalize_keys(get_environ_vars(env)))

\* update_defaults, lines 109-112: every option but an append one gets nargs = 1
set_nargs(st, d) ==
    IF OptionTable[d].action = "append" THEN st
    ELSE [st EXCEPT !.objects[d].nargs = Num(1)]

\* str.split(): the words of a config value
Words == ("" :> <<>>) @@ ("1" :> <<"1">>) @@ ("x" :> <<"x">>) @@ ("x y" :> <<"x", "y">>)
split(val) == Words[val]

\* update_defaults, lines 109-114: split for the append action, strtobool for
\* the flag and counter actions
config_value(d, val) ==
    IF OptionTable[d].action = "append"
    THEN [raised |-> "", v |-> List(split(val))]
    ELSE IF OptionTable[d].action \in {"store_true", "store_false", "count"}
    THEN strtobool(val)
    ELSE [raised |-> "", v |-> Str(val)]

\* a store that extends a default sequence instead of replacing it
store_extended(st, d, conv) ==
    IF conv.raised # "" THEN [st EXCEPT !.exit = TRUE]
    ELSE IF conv.v.t = "list" /\ st.defaults[d].t = "list"
    THEN [st EXCEPT !.defaults[d] = List(@.l \o conv.v.l)]
    ELSE [st EXCEPT !.defaults[d] = conv.v]

\* update_defaults, lines 115-121: OptionValueError ends the process, any
\* other outcome of the conversion is stored
store_converted(st, d, conv) ==
    IF conv.raised # "" THEN [st EXCEPT !.exit = TRUE]
    ELSE [st EXCEPT !.defaults[d] = conv.v]

\* strtobool runs outside the try block: what it raises propagates
store_config_value(st, d, asbool) ==
    IF asbool.raised # "" THEN [st EXCEPT !.raised = asbool.raised]
    ELSE store_converted(st, d, convert_value(d, asbool.v))

\* update_defaults, lines 103-121: one (key, val) of the merged dictionary, d the
\* option get_option found ("" for None).  st = [raised, exit, defaults, objects]
apply_config_item(st, d, val) ==
    IF d = "" \/ val = "" THEN st
    ELSE store_config_value(set_nargs(st, d), d, config_value(d, val))

\* the loop of update_defaults over config.items(), in the dictionary's order
RECURSIVE apply_config_items(_, _, _, _)
apply_config_items(parser, st, config, keys) ==
    IF keys = {} \/ st.raised # "" \/ st.exit THEN st
    ELSE LET key == CHOOSE k \in keys : TRUE
         IN apply_config_items(parser,
                               apply_config_item(st, get_option(parser, key), config[key]),
                               config, keys \ {key})

resolve_config(parser, st, config) == apply_config_items(parser, st, config, DOMAIN config)

update_defaults(parser, defaults, objects, file, env) ==
    resolve_config(parser,
                   [raised |-> "", exit |-> FALSE, defaults |-> defaults, objects |-> objects],
                   merged_config(parser, file, env))

\* get_default_values, lines 156-160: the defaults that are still strings are
\* type-checked
check_string_defaults(st) ==
    IF st.raised # "" \/ st.exit THEN st
    ELSE [st EXCEPT !.defaults =
             [d \in DOMAIN st.defaults |->
                 IF st.defaults[d].t = "str" THEN check_value(d, st.defaults[d]).v
                 ELSE st.defaults[d]]]

\* ConfigOptionParser.get_default_values: resolve on a copy of parser.defaults
get_default_values(parser, objects, file, env) ==
    check_string_defaults(update_defaults(parser, parser.defaults, objects, file, env))

(***************************************************************************)
(* optparse's parse of the command line.                                   *)
(***************************************************************************)
\* Option.take_action with the converted value.  r = [error, values]
take_action(values, d, conv) ==
    CASE OptionTable[d].action = "count" ->
            [error |-> FALSE,
             values |-> [values EXCEPT ![d] = Num((IF @ = PyNone THEN 0 ELSE @.n) + 1)]]
      [] OptionTable[d].action = "store_true" ->
            [error |-> FALSE, values |-> [values EXCEPT ![d] = Num(1)]]
      [] OTHER ->
            IF conv.raised # "" THEN [error |-> TRUE, values |-> values]
            ELSE [error |-> FALSE, values |-> [values EXCEPT ![d] = conv.v]]

\* Option.process for the option d an option string names ("" when there is none)
process_option(values, d, value) ==
    IF d = "" THEN [error |-> TRUE, values |-> values]
    ELSE take_action(values, d, convert_value(d, Str(value)))

\* OptionParser._process_args.  r = [error, values, largs, rargs]
RECURSIVE process_args(_, _, _, _)
process_rest(parser, r, largs, rargs) ==
    IF r.error THEN [error |-> TRUE, values |-> r.values, largs |-> largs, rargs |-> rargs]
    ELSE process_args(parser, r.values, largs, Tail(rargs))
process_args(parser, values, largs, rargs) ==
    IF rargs = <<>> THEN [error |-> FALSE, values |-> values, largs |-> largs, rargs |-> rargs]
    ELSE IF Head(rargs) \in Tokens
    THEN process_rest(parser,
                      process_option(values, get_option(parser, TokenTable[Head(rargs)].opt),
                                     TokenTable[Head(rargs)].value),
                      largs, rargs)
    ELSE IF parser.interspersed
    THEN process_args(parser, values, Append(largs, Head(rargs)), Tail(rargs))
    ELSE [error |-> FALSE, values |-> values, largs |-> largs, rargs |-> rargs]

\* OptionParser.parse_args: defaults first, then the tokens.
\* r = [raised, exit, usage, values, args, objects]
parsed(st, r) ==
    [raised |-> "", exit |-> FALSE, usage |-> r.error,
     values |-> r.values, args |-> r.largs \o r.rargs, objects |-> st.objects]
parse_with_defaults(parser, st, arglist) ==
    IF st.raised # "" \/ st.exit
    THEN [raised |-> st.raised, exit |-> st.exit, usage |-> FALSE,
          values |-> st.defaults, args |-> arglist, objects |-> st.objects]
    ELSE parsed(st, process_args(parser, st.defaults, <<>>, arglist))
parse_args(parser, objects, file, env, arglist) ==
    parse_with_defaults(parser, get_default_values(parser, objects, file, env), arglist)

(***************************************************************************)
(* Command Parser Factory: Command.__init__.                               *)
(***************************************************************************)
\* a copy that leaves out only the options without a destination
copied_options_with_help(option_list) ==
    SelectSeq(option_list, LAMBDA d : d # "")

\* Command._copy_options: the options that are re-added, in order
copied_options(option_list) ==
    SelectSeq(option_list, LAMBDA d : ~(d = "" \/ d = "help"))

\* Command._copy_option_group
copy_option_group(group) ==
    [title |-> group.title, option_list |-> copied_options(group.option_list)]

\* Command.__init__: a new ConfigOptionParser holding the main parser's options
command_parser(name, main) ==
    LET groups == [i \in 1..Len(main.option_groups) |-> copy_option_group(main.option_groups[i])]
        own == copied_options(main.option_list)
    IN [name |-> name,
        option_list |-> own,
        option_groups |-> groups,
        defaults |-> DefaultsOf(Range(own) \cup UNION {Range(groups[i].option_list) :
                                                          i \in 1..Len(groups)}),
        interspersed |-> TRUE]

\* OptionContainer.add_option(option) given an Option instance: the object itself
\* is appended and its container attribute is set to the new container
readd_options(objects, parser) ==
    [d \in DOMAIN objects |->
        IF d \in Range(parser.option_list)
        THEN [objects[d] EXCEPT !.container = ParserItself(parser.name)]
        ELSE IF \E i \in 1..Len(parser.option_groups) : d \in Range(parser.option_groups[i].option_list)
        THEN [objects[d] EXCEPT !.container =
                 GroupOf(parser.name,
                         (CHOOSE g \in Range(parser.option_groups) : d \in Range(g.option_list)).title)]
        ELSE objects[d]]

\* the command's constructor after Command.__init__: its own options are added
\* to command_group and the group to the parser
add_command_options(parser) ==
    [parser EXCEPT
        !.option_groups = <<[title |-> CommandTitle, option_list |-> command_opts]>> \o @,
        !.defaults = @ @@ DefaultsOf(Range(command_opts))]

\* the Option objects of the command's own options
command_option_objects(name) ==
    [d \in Range(command_opts) |->
        [nargs |-> IF OptionTable[d].type # "" THEN Num(1) ELSE PyNone,
         container |-> GroupOf(name, CommandTitle)]]

(***************************************************************************)
(* Execution Controller: Command.merge_options, open_logfile, the logger.  *)
(***************************************************************************)
CarryOver ==
    <<"log", "proxy", "require_venv", "log_explicit_levels", "log_file",
      "timeout", "default_vcs", "skip_requirements_regex", "no_input">>

\* Command.merge_options, line 75: the value stored back into options
merged_value(initial, opts, attr) == PyOr(initial[attr], opts[attr])

\* a merge in which the command-scope counters replace the global-scope ones
merge_options_override(initial, opts) ==
    [d \in DOMAIN opts |->
        IF d \in Range(CarryOver) THEN merged_value(initial, opts, d) ELSE opts[d]]

\* Command.merge_options
merge_options(initial, opts) ==
    [d \in DOMAIN opts |->
        IF d \in Range(CarryOver) THEN merged_value(initial, opts, d)
        ELSE IF d \in {"quiet", "verbose"} THEN Num(opts[d].n + initial[d].n)
        ELSE opts[d]]

Separator == "------------------------------------------------------------"
RunStamp == "pip run on <time>"
NoFile == [exists |-> FALSE, content |-> <<>>]

\* open_logfile's effect on a file: f is the file as it is, mode is 'a' or 'w'
open_logfile(f, mode) ==
    LET kept == IF mode = "a" /\ f.exists THEN f.content ELSE <<>>
    IN [exists |-> TRUE,
        content |-> kept \o (IF f.exists THEN <<Separator, RunStamp>> ELSE <<>>)]

\* logger.log: one line delivered to each consumer in turn; writing to a closed
\* file object raises ValueError.  r = [raised, complete_log, files]
RECURSIVE deliver(_, _, _, _, _, _)
deliver(sinks, line, clog, fp, fs, path) ==
    IF sinks = <<>> THEN [raised |-> "", complete_log |-> clog, files |-> fs]
    ELSE CASE Head(sinks) = "complete_log" ->
                 deliver(Tail(sinks), line, Append(clog, line), fp, fs, path)
           [] Head(sinks) = "log_fp" ->
                 IF fp = "closed"
                 THEN [raised |-> "ValueError", complete_log |-> clog, files |-> fs]
                 ELSE deliver(Tail(sinks), line, clog, fp,
                              [fs EXCEPT ![path].now.content = Append(@, line)], path)
           [] OTHER -> deliver(Tail(sinks), line, clog, fp, fs, path)

RECURSIVE deliver_all(_, _, _, _, _, _)
deliver_all(sinks, lines, clog, fp, fs, path) ==
    IF lines = <<>> THEN [raised |-> "", complete_log |-> clog, files |-> fs]
    ELSE LET r == deliver(sinks, Head(lines), clog, fp, fs, path)
         IN IF r.raised # "" THEN r
            ELSE deliver_all(sinks, Tail(lines), r.complete_log, fp, r.files, path)

\* what the command body does: return a status, return nothing, or raise
Outcomes ==
    {"None", "int", "InstallationError", "UninstallationError", "BadCommand",
     "CommandError", "KeyboardInterrupt", "Exception"}

\* Command.main, lines 117-150: the exit code, the store_log flag and the log
\* lines of each way the body can end
handle_outcome(kind, status) ==
    CASE kind = "None" -> [exit |-> SUCCESS, store_log |-> FALSE, lines |-> <<>>]
      [] kind = "int" -> [exit |-> status, store_log |-> FALSE, lines |-> <<>>]
      [] kind \in {"InstallationError", "UninstallationError"} ->
            [exit |-> ERROR, store_log |-> TRUE, lines |-> <<"fatal: error", "info: traceback">>]
      [] kind = "BadCommand" ->
            [exit |-> ERROR, store_log |-> TRUE, lines |-> <<"fatal: error", "info: traceback">>]
      [] kind = "CommandError" ->
            [exit |-> ERROR, store_log |-> FALSE, lines |-> <<"fatal: ERROR", "info: traceback">>]
      [] kind = "KeyboardInterrupt" ->
            [exit |-> ERROR, store_log |-> TRUE, lines |-> <<"fatal: cancelled", "info: traceback">>]
      [] OTHER ->
            [exit |-> UNKNOWN_ERROR, store_log |-> TRUE, lines |-> <<"fatal: exception">>]

(***************************************************************************)
(* The process: pip.main, then Command.main.                               *)
(***************************************************************************)
vars ==
    <<argv, config_file, environ, pc, option_objects, main_parser, cmd_parser,
      initial_options, options, args, logger_consumers, complete_log, log_fp,
      net, virtual_env, outcome, exit, store_log, files, result,
      stderr, resolutions, dist, frozen, rendered>>

inputs == <<argv, config_file, environ>>
parsers == <<main_parser, cmd_parser>>
controller == <<logger_consumers, complete_log, log_fp, net, virtual_env,
                outcome, exit, store_log, files>>
\* what the process of pip.main leaves alone: the resolver's call history and the
\* freeze records
aside == <<resolutions, dist, frozen, rendered>>

Ended(kind, code, exc) == [kind |-> kind, code |-> code, exc |-> exc]
StillRunning == Ended("running", 0, "")

SeqsUpTo(S, n) == UNION {[1..m -> S] : m \in 0..n}

\* the entries a config source holds: none, or one value for the key
SourceDict(key, val) == IF val = "absent" THEN EmptyDict ELSE (key :> val)

\* no distribution, no record
NoDist == [project_name |-> ""]
NotFrozen ==
    [raised |-> "", made |-> FALSE, by |-> "", name |-> "", req |-> <<>>, editable |-> FALSE,
     comments |-> <<>>]
NothingAside ==
    /\ resolutions = <<>>
    /\ dist = NoDist
    /\ frozen = NotFrozen
    /\ rendered = <<>>

\* the process before pip.main has done anything
ProcessStart ==
    /\ option_objects = InitialOptionObjects
    /\ main_parser = create_main_parser
    /\ cmd_parser = NoParser
    /\ initial_options = [d \in {} |-> PyNone]
    /\ options = [d \in {} |-> PyNone]
    /\ args = argv
    /\ logger_consumers = <<>>
    /\ complete_log = <<>>
    /\ log_fp = "none"
    /\ net = [timeout_sets |-> 0, timeout |-> PyNone, proxy_sets |-> 0, proxy |-> PyNone]
    /\ virtual_env = "unread"
    /\ outcome = [kind |-> "not run", status |-> 0]
    /\ exit = SUCCESS
    /\ store_log = FALSE
    /\ files = [path \in {} |-> [before |-> NoFile, now |-> NoFile]]
    /\ result = StillRunning
    /\ stderr = <<>>

Init ==
    /\ \E key \in CfgKeys, src \in [{"global", "command", "env"} -> CfgVals \cup ListVals \cup {"absent"}] :
         LET given == Cardinality({x \in DOMAIN src : src[x] # "absent"}) IN
         /\ given <= MaxInputs
         /\ \A x \in DOMAIN src : src[x] \in CfgValsOf(key) \cup {"absent"}
         /\ config_file = [global |-> SourceDict(key, src["global"]),
                           install |-> SourceDict(key, src["command"])]
         /\ environ = SourceDict(EnvVarOf(key), src["env"])
         /\ \E g \in SeqsUpTo(Tokens, MaxInputs - given) :
              \E c \in SeqsUpTo(Tokens, MaxInputs - given - Len(g)) :
                 \E cmd \in CommandWords :
                    /\ (cmd \notin Commands) => (given + Len(g) + Len(c) < MaxInputs)
                    /\ argv = g \o <<cmd>> \o c
    /\ pc = "parseopts"
    /\ ProcessStart
    /\ NothingAside

\* how a parse that did not succeed ends the process
parse_failure(r) ==
    IF r.raised # "" THEN Ended("raised", 0, r.raised)
    ELSE IF r.exit THEN Ended("exit", ConfigErrorExit, "")
    ELSE Ended("usage error", 0, "")
parse_failed(r) == r.raised # "" \/ r.exit \/ r.usage

\* an unknown-command message that never suggests a command
unknown_command_plain(command) == <<"unknown command \"", command, "\"">>

\* parseopts, lines 206-210: the text of the CommandError for an unknown command
unknown_command(command) ==
    <<"unknown command \"", command, "\"">> \o
    (IF get_similar_commands(command) # ""
     THEN <<" - ", "maybe you meant \"", get_similar_commands(command), "\"">>
     ELSE <<>>)
\* os.linesep
linesep == "\n"

\* pip.main up to the dispatch: parseopts, and main's handler of PipError
parseopts(r) ==
         /\ option_objects' = r.objects
         /\ IF parse_failed(r)
            THEN /\ pc' = "done"
                 /\ result' = parse_failure(r)
                 /\ UNCHANGED <<initial_options, args, stderr>>
            ELSE IF Truthy(r.values["version"]) \/ Truthy(r.values["help"]) \/ r.args = <<>>
                    \/ r.args = <<"help">>
            THEN /\ pc' = "done"
                 /\ result' = Ended("exit", SUCCESS, "")
                 /\ UNCHANGED <<initial_options, args, stderr>>
            ELSE IF lower(Head(r.args)) \notin Commands
            THEN /\ pc' = "done"
                 /\ stderr' = stderr \o unknown_command(lower(Head(r.args))) \o <<linesep>>
                 /\ result' = Ended("exit", PipErrorExit, "")
                 /\ UNCHANGED <<initial_options, args>>
            ELSE /\ pc' = "instantiate"
                 /\ initial_options' = r.values
                 /\ args' = r.args
                 /\ UNCHANGED <<result, stderr>>
ParseOpts ==
    /\ pc = "parseopts"
    /\ parseopts(parse_args(main_parser, option_objects, config_file, environ, argv))
    /\ UNCHANGED <<inputs, aside, parsers, options, controller>>

\* pip.main, line 230: commands[cmd_name](parser)
Instantiate ==
    /\ pc = "instantiate"
    /\ cmd_parser' = add_command_options(command_parser(lower(Head(args)), main_parser))
    /\ option_objects' = readd_options(option_objects, cmd_parser')
                             @@ command_option_objects(lower(Head(args)))
    /\ args' = Tail(args)
    /\ pc' = "cmd_parse"
    /\ UNCHANGED <<inputs, aside, stderr, main_parser, initial_options, options, controller, result>>

\* Command.main, line 85
command_parse(r) ==
         /\ option_objects' = r.objects
         /\ IF parse_failed(r)
            THEN /\ pc' = "done"
                 /\ result' = parse_failure(r)
                 /\ UNCHANGED <<options, args>>
            ELSE /\ pc' = "merge"
                 /\ options' = r.values
                 /\ args' = r.args
                 /\ UNCHANGED result
CmdParse ==
    /\ pc = "cmd_parse"
    /\ command_parse(parse_args(cmd_parser, option_objects, config_file, environ, args))
    /\ UNCHANGED <<inputs, aside, stderr, parsers, initial_options, controller>>

\* Command.main, lines 86-99: merge_options, then the two standing log consumers
Merge ==
    /\ pc = "merge"
    /\ options' = merge_options(initial_options, options)
    /\ logger_consumers' = logger_consumers \o <<"stdout", "complete_log">>
    /\ pc' = "precheck"
    /\ UNCHANGED <<inputs, aside, stderr, option_objects, parsers, initial_options, args, complete_log,
                   log_fp, net, virtual_env, outcome, exit, store_log, files, result>>

\* a precondition that is never found unmet
require_venv_ignored(opts, v) == FALSE

\* Command.main, lines 101-103: a virtualenv is required and none is active
require_venv_unmet(opts, v) == Truthy(opts["require_venv"]) /\ v = "unset"

\* Command.main, lines 101-105
PreCheck ==
    /\ pc = "precheck"
    /\ IF Truthy(options["require_venv"])
       THEN \E v \in {"set", "unset"} :
              /\ virtual_env' = v
              /\ IF require_venv_unmet(options, v)
                 THEN LET r == deliver(logger_consumers, "fatal: no virtualenv", complete_log,
                                       log_fp, files, "")
                      IN /\ complete_log' = r.complete_log
                         /\ result' = Ended("exit", VIRTUALENV_NOT_FOUND, "")
                         /\ pc' = "done"
                 ELSE /\ pc' = "prepare"
                      /\ UNCHANGED <<complete_log, result>>
       ELSE /\ pc' = "prepare"
            /\ UNCHANGED <<virtual_env, complete_log, result>>
    /\ UNCHANGED <<inputs, aside, stderr, option_objects, parsers, initial_options, options, args,
                   logger_consumers, log_fp, net, outcome, exit, store_log, files>>

\* the file a path names when the process first touches it: there or not
FirstSeen(existed) ==
    IF existed THEN [exists |-> TRUE, content |-> <<"earlier run">>] ELSE NoFile
Touch(fs, path, existed) ==
    IF path \in DOMAIN fs THEN fs
    ELSE fs @@ (path :> [before |-> FirstSeen(existed), now |-> FirstSeen(existed)])

\* a preparation that leaves the socket timeout and the proxy alone
PrepareUnset ==
    /\ pc = "prepare"
    /\ IF Truthy(options["log"])
       THEN \E existed \in BOOLEAN :
              LET path == options["log"].s
                  fs == Touch(files, path, existed)
              IN /\ files' = [fs EXCEPT ![path].now = open_logfile(@, "a")]
                 /\ log_fp' = "open"
                 /\ logger_consumers' = Append(logger_consumers, "log_fp")
       ELSE UNCHANGED <<files, log_fp, logger_consumers>>
    /\ pc' = "run"
    /\ UNCHANGED <<inputs, aside, stderr, option_objects, parsers, initial_options, options, args,
                   complete_log, virtual_env, outcome, exit, store_log, result, net>>

\* Command.main, lines 107-115: the user's log file, the socket timeout, the proxy
Prepare ==
    /\ pc = "prepare"
    /\ IF Truthy(options["log"])
       THEN \E existed \in BOOLEAN :
              LET path == options["log"].s
                  fs == Touch(files, path, existed)
              IN /\ files' = [fs EXCEPT ![path].now = open_logfile(@, "a")]
                 /\ log_fp' = "open"
                 /\ logger_consumers' = Append(logger_consumers, "log_fp")
       ELSE UNCHANGED <<files, log_fp, logger_consumers>>
    /\ net' = [timeout_sets |-> net.timeout_sets + 1,
               timeout |-> PyOr(options["timeout"], PyNone),
               proxy_sets |-> net.proxy_sets + 1,
               proxy |-> options["proxy"]]
    /\ pc' = "run"
    /\ UNCHANGED <<inputs, aside, stderr, option_objects, parsers, initial_options, options, args,
                   complete_log, virtual_env, outcome, exit, store_log, result>>

UserLogPath == IF Truthy(options["log"]) THEN options["log"].s ELSE ""

\* Command.main, lines 117-150: the body and the except clauses
Run ==
    /\ pc = "run"
    /\ \E kind \in Outcomes, status \in 0..MaxStatus :
         /\ kind # "int" => status = 0
         /\ LET h == handle_outcome(kind, status)
                r == deliver_all(logger_consumers, h.lines, complete_log, log_fp, files,
                                 UserLogPath)
            IN /\ outcome' = [kind |-> kind, status |-> status]
               /\ exit' = h.exit
               /\ store_log' = h.store_log
               /\ complete_log' = r.complete_log
               /\ files' = r.files
    /\ pc' = "finalize"
    /\ UNCHANGED <<inputs, aside, stderr, option_objects, parsers, initial_options, options, args,
                   logger_consumers, log_fp, net, virtual_env, result>>

\* Command.main, lines 151-160
Finalize ==
    /\ pc = "finalize"
    /\ log_fp' = IF log_fp # "none" THEN "closed" ELSE log_fp
    /\ IF store_log
       THEN LET log_fn == options["log_file"].s
                text == complete_log
                r == deliver(logger_consumers, "fatal: storing complete log", complete_log,
                             log_fp', files, UserLogPath)
            IN /\ complete_log' = r.complete_log
               /\ IF r.raised # ""
                  THEN /\ files' = r.files
                       /\ result' = Ended("raised", 0, r.raised)
                  ELSE \E existed \in BOOLEAN :
                         LET fs == Touch(r.files, log_fn, existed)
                         IN /\ files' = [fs EXCEPT ![log_fn].now =
                                            [open_logfile(@, "w") EXCEPT !.content = @ \o text]]
                            /\ result' = Ended("returned", exit, "")
       ELSE /\ result' = Ended("returned", exit, "")
            /\ UNCHANGED <<complete_log, files>>
    /\ pc' = "done"
    /\ UNCHANGED <<inputs, aside, stderr, option_objects, parsers, initial_options, options, args,
                   logger_consumers, net, virtual_env, outcome, exit, store_log>>

Next ==
    \/ ParseOpts
    \/ Instantiate
    \/ CmdParse
    \/ Merge
    \/ PreCheck
    \/ Prepare
    \/ Run
    \/ Finalize

Spec == Init /\ [][Next]_vars

(***************************************************************************)
(* Freeze: FrozenRequirement.  A text is a sequence of pieces, each piece   *)
(* a character or a string without a newline; a version is spelt out in    *)
(* characters because the patterns look into it.                           *)
(***************************************************************************)
MaxComments == 2

Digits == {"0", "1", "2", "3", "4", "5", "6", "7", "8", "9"}
Versions ==
    {<<"1", ".", "2", ".", "3">>,
     <<"1", ".", "2", "-", "r", "4", "5">>,
     <<"1", ".", "2", "-", "2", "0", "1", "0", "0", "1", "0", "1">>,
     <<"1", ".", "2", "-", "r">>,
     <<"1", ".", "2", "-", "2", "0", "1", "0">>}
ProjectNames == {"foo", "bar"}
\* what get_src_requirement returns for a location a backend owns: None (<<>>)
\* or the backend's locator
BackendLocator == <<"git+http://host/repo.git", "@", "0a1b2c", "#egg=", "pkg">>
\* what the svn backend's get_location returns: None ("") or a URL
SvnLocations == {"", "svn+http://host/repo"}

\* the distributions from_dist is given, with what the VCS registry answers
Dists ==
    [project_name : ProjectNames,
     version : Versions,
     backend_name : {"", "git"},
     src_requirement : {<<>>, BackendLocator},
     svn_registered : BOOLEAN,
     svn_location : SvnLocations]

\* FrozenRequirement._rev_re.search(version): group(1), <<>> for no match
rev_re(version) ==
    LET starts == {i \in 1..(Len(version) - 2) :
                      /\ version[i] = "-" /\ version[i + 1] = "r"
                      /\ \A j \in (i + 2)..Len(version) : version[j] \in Digits}
    IN IF starts = {} THEN <<>>
       ELSE SubSeq(version, (CHOOSE i \in starts : \A k \in starts : i <= k) + 2, Len(version))

\* a date pattern that takes any eight digits
date_re_any(version) ==
    LET n == Len(version) IN
    IF n >= 9 /\ version[n - 8] = "-" /\ \A j \in (n - 7)..n : version[j] \in Digits
    THEN SubSeq(version, n - 7, n)
    ELSE <<>>

\* FrozenRequirement._date_re.search(version): group(1), <<>> for no match
date_re(version) ==
    LET n == Len(version) IN
    IF /\ n >= 9
       /\ version[n - 8] = "-" /\ version[n - 7] = "2" /\ version[n - 6] = "0"
       /\ \A j \in (n - 5)..n : version[j] \in Digits
    THEN SubSeq(version, n - 7, n)
    ELSE <<>>

\* dist.as_requirement(), as its str(): name==version
as_requirement(d) == <<d.project_name, "==">> \o d.version

\* dist.egg_name(): name-version-pyX.Y, with '-' inside the version as '_'
to_filename(text) == [i \in 1..Len(text) |-> IF text[i] = "-" THEN "_" ELSE text[i]]
PySuffix == <<"-", "p", "y", "2", ".", "7">>
dist_egg_name(d) == <<d.project_name, "-">> \o to_filename(d.version) \o PySuffix

\* FrozenRequirement.egg_name: dist.egg_name() without a trailing -pyX.Y
egg_name(d) ==
    LET name == dist_egg_name(d)
        n == Len(name)
    IN IF /\ n >= 6
          /\ name[n - 5] = "-" /\ name[n - 4] = "p" /\ name[n - 3] = "y"
          /\ name[n - 2] \in Digits /\ name[n - 1] = "." /\ name[n] \in Digits
       THEN SubSeq(name, 1, n - 6)
       ELSE name

NoLocationComment == <<"## !! Could not determine repository location">>
NoSvnUrlComment ==
    <<"## FIXME: could not find svn URL in dependency_links for this package:">>
EditableComment(req) == <<"# Installing as editable to satisfy requirement ">> \o req \o <<":">>

\* FrozenRequirement.__init__, as from_dist or a caller uses it
FrozenRequirement(by, name, req, editable, comments) ==
    [raised |-> "", made |-> TRUE, by |-> by, name |-> name, req |-> req,
     editable |-> editable, comments |-> comments]
\* an exception leaving from_dist
Raised(exc) == [NotFrozen EXCEPT !.raised = exc, !.by = "from_dist"]

\* a backend path that keeps the record editable when no locator is found
from_backend_editable(d) ==
    IF d.src_requirement = <<>>
    THEN FrozenRequirement("from_dist", d.project_name, as_requirement(d), TRUE,
                           <<NoLocationComment>>)
    ELSE FrozenRequirement("from_dist", d.project_name, d.src_requirement, TRUE, <<>>)

\* from_dist, lines 105-112: a VCS backend owns the location
from_backend(d) ==
    IF d.src_requirement = <<>>
    THEN FrozenRequirement("from_dist", d.project_name, as_requirement(d), FALSE,
                           <<NoLocationComment>>)
    ELSE FrozenRequirement("from_dist", d.project_name, d.src_requirement, TRUE, <<>>)

\* a revision that is always braced
legacy_rev_braced(version) ==
    <<"{">> \o (IF rev_re(version) # <<>> THEN rev_re(version) ELSE date_re(version)) \o <<"}">>

\* from_dist, lines 132-135: the revision of the legacy suffix
legacy_rev(version) ==
    IF rev_re(version) # <<>> THEN rev_re(version)
    ELSE <<"{">> \o date_re(version) \o <<"}">>

\* from_dist, lines 126-137, svn_location bound
from_svn_location(d, svn_location) ==
    IF svn_location = ""
    THEN FrozenRequirement("from_dist", d.project_name, as_requirement(d), FALSE,
                           <<NoSvnUrlComment>>)
    ELSE FrozenRequirement("from_dist", d.project_name,
                           <<svn_location, "@">> \o legacy_rev(d.version) \o <<"#egg=">>
                               \o egg_name(d),
                           TRUE, <<EditableComment(as_requirement(d))>>)

\* a release path that marks every legacy-suffixed distribution editable
from_release_editable(d) ==
    IF rev_re(d.version) # <<>> \/ date_re(d.version) # <<>>
    THEN IF d.svn_registered
         THEN [from_svn_location(d, d.svn_location) EXCEPT !.editable = TRUE]
         ELSE Raised("UnboundLocalError")
    ELSE FrozenRequirement("from_dist", d.project_name, as_requirement(d), FALSE, <<>>)

\* from_dist, lines 114-137: no backend owns the location.  svn_location is
\* assigned only when the svn backend is registered; reading it unassigned
\* raises UnboundLocalError
from_release(d) ==
    IF rev_re(d.version) # <<>> \/ date_re(d.version) # <<>>
    THEN IF d.svn_registered
         THEN from_svn_location(d, d.svn_location)
         ELSE Raised("UnboundLocalError")
    ELSE FrozenRequirement("from_dist", d.project_name, as_requirement(d), FALSE, <<>>)

\* FrozenRequirement.from_dist
from_dist(d) == IF d.backend_name # "" THEN from_backend(d) ELSE from_release(d)

\* str.join
RECURSIVE join(_, _)
join(sep, lines) ==
    IF lines = <<>> THEN <<>>
    ELSE IF Len(lines) = 1 THEN lines[1]
    ELSE lines[1] \o <<sep>> \o join(sep, Tail(lines))

\* a rendering without the editable marker
str_unmarked(f) == join("\n", f.comments \o <<f.req>>) \o <<"\n">>

\* FrozenRequirement.__str__
str(f) ==
    LET req == IF f.editable THEN <<"-e ">> \o f.req ELSE f.req
    IN join("\n", f.comments \o <<req>>) \o <<"\n">>

\* the comments and requirements a caller builds a record from
CommentTexts == {NoLocationComment, NoSvnUrlComment, EditableComment(<<"foo", "==", "1">>)}
Requirements == {<<"foo", "==", "1", ".", "2", ".", "3">>, BackendLocator}

InitFreeze ==
    /\ argv = <<"install">>
    /\ config_file = [global |-> EmptyDict, install |-> EmptyDict]
    /\ environ = EmptyDict
    /\ ProcessStart
    /\ resolutions = <<>>
    /\ dist \in Dists
    /\ frozen = NotFrozen
    /\ rendered = <<>>
    /\ pc = "freeze"

process == <<inputs, option_objects, parsers, initial_options, options, args, controller,
             result, stderr, resolutions>>

\* FrozenRequirement.from_dist(dist, dependency_links)
FromDist ==
    /\ pc = "freeze"
    /\ frozen' = from_dist(dist)
    /\ pc' = IF frozen'.raised # "" THEN "done" ELSE "render"
    /\ UNCHANGED <<process, dist, rendered>>

\* FrozenRequirement(name, req, editable, comments)
Construct ==
    /\ pc = "freeze"
    /\ \E name \in ProjectNames, req \in Requirements, editable \in BOOLEAN,
          comments \in SeqsUpTo(CommentTexts, MaxComments) :
          frozen' = FrozenRequirement("caller", name, req, editable, comments)
    /\ pc' = "render"
    /\ UNCHANGED <<process, dist, rendered>>

\* str(frozen)
Render ==
    /\ pc = "render"
    /\ rendered' = str(frozen)
    /\ pc' = "rendered"
    /\ UNCHANGED <<process, dist, frozen>>

NextFreeze ==
    \/ FromDist
    \/ Construct
    \/ Render

SpecFreeze == InitFreeze /\ [][NextFreeze]_vars

(***************************************************************************)
(* The legacy suffix patterns on their own: from_dist applied to            *)
(* distributions no backend owns, over versions put together from marker    *)
(* pieces and digit runs.                                                   *)
(***************************************************************************)
Markers == {<<>>, <<"-">>, <<"-", "r">>, <<"r">>}
DigitRuns ==
    {<<>>,
     <<"4">>,
     <<"4", "5">>,
     <<"2", "0", "1", "0", "0", "1", "0", "1">>,
     <<"1", "9", "9", "9", "1", "2", "3", "1">>,
     <<"0", "2", "0", "1", "0", "0", "1", "0", "1">>}
MarkedVersions ==
    {<<"1">> \o m1 \o d1 \o m2 \o d2 : m1 \in Markers, d1 \in DigitRuns,
                                         m2 \in Markers, d2 \in DigitRuns}
ReleaseDists ==
    [project_name : {"foo"},
     version : MarkedVersions,
     backend_name : {""},
     src_requirement : {<<>>},
     svn_registered : BOOLEAN,
     svn_location : SvnLocations]

InitLegacy ==
    /\ argv = <<"install">>
    /\ config_file = [global |-> EmptyDict, install |-> EmptyDict]
    /\ environ = EmptyDict
    /\ ProcessStart
    /\ resolutions = <<>>
    /\ dist \in ReleaseDists
    /\ frozen = NotFrozen
    /\ rendered = <<>>
    /\ pc = "freeze"

NextLegacy ==
    \/ FromDist
    \/ Render

SpecLegacy == InitLegacy /\ [][NextLegacy]_vars

(***************************************************************************)
(* The resolver used on its own: get_default_values called again on a      *)
(* parser, and the help formatter's expand_default in between.             *)
(***************************************************************************)
MaxCalls == 3

InitResolve ==
    /\ \E key \in CfgKeys, src \in [{"global", "command", "env"} -> CfgVals \cup ListVals \cup {"absent"}] :
         /\ Cardinality({x \in DOMAIN src : src[x] # "absent"}) <= MaxInputs
         /\ \A x \in DOMAIN src : src[x] \in CfgValsOf(key) \cup {"absent"}
         /\ config_file = [global |-> SourceDict(key, src["global"]),
                           install |-> SourceDict(key, src["command"])]
         /\ environ = SourceDict(EnvVarOf(key), src["env"])
    /\ argv = <<"install">>
    /\ ProcessStart
    /\ NothingAside
    /\ pc = "resolve"

\* the parsers that exist
ParserNames == {"global"} \cup (IF cmd_parser = NoParser THEN {} ELSE {cmd_parser.name})
ParserNamed(name) == IF name = "global" THEN main_parser ELSE cmd_parser
\* one entry of the call history
Call(call, name, st) ==
    [call |-> call, parser |-> name, raised |-> st.raised, exit |-> st.exit,
     defaults |-> st.defaults]
untouched == <<inputs, initial_options, options, args, controller, result, stderr,
               dist, frozen, rendered, pc>>

\* commands[cmd_name](parser): the command and its parser are built
BuildCommand ==
    /\ pc = "resolve"
    /\ cmd_parser = NoParser
    /\ cmd_parser' = add_command_options(command_parser("install", main_parser))
    /\ option_objects' = readd_options(option_objects, cmd_parser')
                             @@ command_option_objects("install")
    /\ UNCHANGED <<untouched, main_parser, resolutions>>

\* parser.get_default_values()
resolve_defaults(name, st) ==
    /\ option_objects' = st.objects
    /\ resolutions' = Append(resolutions, Call("get_default_values", name, st))
ResolveDefaults ==
    /\ pc = "resolve"
    /\ Len(resolutions) < MaxCalls
    /\ \E name \in ParserNames :
         resolve_defaults(name, get_default_values(ParserNamed(name), option_objects,
                                                   config_file, environ))
    /\ UNCHANGED <<untouched, parsers>>

\* UpdatingDefaultsHelpFormatter.expand_default: update_defaults on the parser's
\* own defaults dictionary
expand_default(name, st) ==
    /\ option_objects' = st.objects
    /\ IF name = "global"
       THEN main_parser' = [main_parser EXCEPT !.defaults = st.defaults] /\ UNCHANGED cmd_parser
       ELSE cmd_parser' = [cmd_parser EXCEPT !.defaults = st.defaults] /\ UNCHANGED main_parser
    /\ resolutions' = Append(resolutions, Call("expand_default", name, st))
ExpandDefault ==
    /\ pc = "resolve"
    /\ Len(resolutions) < MaxCalls
    /\ \E name \in ParserNames :
         expand_default(name, update_defaults(ParserNamed(name), ParserNamed(name).defaults,
                                              option_objects, config_file, environ))
    /\ UNCHANGED untouched

NextResolve ==
    \/ BuildCommand
    \/ ResolveDefaults
    \/ ExpandDefault

SpecResolve == InitResolve /\ [][NextResolve]_vars

(***************************************************************************)
(* The command parser factory on its own: Command.__init__ given a main    *)
(* parser that may hold an option without a destination (written ""), in   *)
(* its group or among its own options.                                     *)
(***************************************************************************)
InsertAt(list, i, x) == SubSeq(list, 1, i) \o <<x>> \o SubSeq(list, i + 1, Len(list))
WithPlaceholder(list) == {list} \cup {InsertAt(list, i, "") : i \in 0..Len(list)}
MainParsers ==
    {[create_main_parser EXCEPT
         !.option_list = own,
         !.option_groups = <<[title |-> GeneralTitle, option_list |-> grouped]>>] :
       own \in WithPlaceholder(main_option_list), grouped \in WithPlaceholder(general_opts)}

InitFactory ==
    /\ argv = <<"install">>
    /\ config_file = [global |-> EmptyDict, install |-> EmptyDict]
    /\ environ = EmptyDict
    /\ option_objects = InitialOptionObjects
    /\ main_parser \in MainParsers
    /\ cmd_parser = NoParser
    /\ initial_options = [d \in {} |-> PyNone]
    /\ options = [d \in {} |-> PyNone]
    /\ args = argv
    /\ logger_consumers = <<>>
    /\ complete_log = <<>>
    /\ log_fp = "none"
    /\ net = [timeout_sets |-> 0, timeout |-> PyNone, proxy_sets |-> 0, proxy |-> PyNone]
    /\ virtual_env = "unread"
    /\ outcome = [kind |-> "not run", status |-> 0]
    /\ exit = SUCCESS
    /\ store_log = FALSE
    /\ files = [path \in {} |-> [before |-> NoFile, now |-> NoFile]]
    /\ result = StillRunning
    /\ stderr = <<>>
    /\ NothingAside
    /\ pc = "resolve"

NextFactory == BuildCommand

SpecFactory == InitFactory /\ [][NextFactory]_vars

(***************************************************************************)
(* What the claims speak about.                                            *)
(***************************************************************************)
Done == pc = "done"
Merged == pc = "precheck"
BodyRan == outcome.kind # "not run"

\* the option tokens of the command line, before or after the command name,
\* that name a destination
TokensFor(d) ==
    {i \in 1..Len(argv) : argv[i] \in Tokens /\ TokenTable[argv[i]].opt \in OptionTable[d].strings}
FlagCount(d) == Cardinality(TokensFor(d))

\* the value each source supplies for a destination ("" when it supplies none)
SuppliedBy(dict, d) ==
    LET n == normalize_keys(dict)
        keys == DOMAIN n \cap OptionTable[d].strings
    IN IF keys = {} THEN "" ELSE n[CHOOSE k \in keys : TRUE]
FromEnv(d) == SuppliedBy(get_environ_vars(environ), d)
FromCommandSection(d) == SuppliedBy(config_file["install"], d)
FromGlobalSection(d) == SuppliedBy(config_file["global"], d)

\* a config string read as the option's kind of value
Convertible(d, val) ==
    CASE OptionTable[d].action \in {"store_true", "store_false", "count"} ->
            val \in TrueWords \cup FalseWords
      [] OptionTable[d].type = "float" -> val \in DOMAIN FloatLiterals
      [] OTHER -> TRUE
AsValue(d, val) ==
    CASE OptionTable[d].action \in {"store_true", "store_false", "count"} ->
            Num(IF val \in TrueWords THEN 1 ELSE 0)
      [] OptionTable[d].type = "float" -> Num(FloatLiterals[val])
      [] OTHER -> Str(val)
CliValues(d) ==
    {IF OptionTable[d].action = "store_true" THEN Num(1)
     ELSE AsValue(d, TokenTable[argv[i]].value) : i \in TokensFor(d)}

\* the values the precedence order allows for a destination
ByPrecedence(d) ==
    IF CliValues(d) # {} THEN CliValues(d)
    ELSE IF FromEnv(d) # "" THEN {AsValue(d, FromEnv(d))}
    ELSE IF FromCommandSection(d) # "" THEN {AsValue(d, FromCommandSection(d))}
    ELSE IF FromGlobalSection(d) # "" THEN {AsValue(d, FromGlobalSection(d))}
    ELSE {OptionTable[d].default}

\* C1: after Parsing and Merging every carry-over option holds the value of the
\* highest-precedence source that supplies one: command line, then environment,
\* then the command's config section, then the global section, then the default.
C1_Precedence ==
    Merged => \A i \in 1..Len(CarryOver) : options[CarryOver[i]] \in ByPrecedence(CarryOver[i])

\* the exit code the claim assigns to each way the body can end
ExitFor(o) ==
    CASE o.kind = "None" -> SUCCESS
      [] o.kind = "int" -> o.status
      [] o.kind = "Exception" -> UNKNOWN_ERROR
      [] OTHER -> ERROR

\* C2: whenever the body ran, the controller returns the exit code its outcome
\* determines, and nothing propagates out of the controller.
C2_ExitCode == (Done /\ BodyRan) => result = Ended("returned", ExitFor(outcome), "")

\* the failure log was written to the configured log_file path
Persisted == options # <<>> /\ options["log_file"].s \in DOMAIN files
FailureKinds ==
    {"InstallationError", "UninstallationError", "BadCommand", "KeyboardInterrupt", "Exception"}

\* C3: the failure log is persisted exactly when the body ended with an
\* install, uninstall or bad-command failure, an interrupt or an unrecognised
\* exception; never after a normal return, a command-argument error or a failed
\* virtual-environment precondition.
C3_PersistIff ==
    /\ (Done /\ BodyRan) => (Persisted <=> outcome.kind \in FailureKinds)
    /\ (Done /\ ~BodyRan) => ~Persisted

\* C4: when the merged require-virtualenv option is set and no virtual
\* environment is active, the process ends in the precondition check with
\* VIRTUALENV_NOT_FOUND: the body is not run, the user's log file is not opened,
\* socket timeout and proxy are not set and no failure log is persisted; and the
\* later phases are entered only when the precondition is met.
C4_VenvAbort ==
    /\ (virtual_env = "unset" /\ Truthy(options["require_venv"])) =>
          /\ Done
          /\ result = Ended("exit", VIRTUALENV_NOT_FOUND, "")
          /\ ~BodyRan
          /\ log_fp = "none"
          /\ "log_fp" \notin Range(logger_consumers)
          /\ net.timeout_sets = 0 /\ net.proxy_sets = 0
          /\ DOMAIN files = {}
    /\ (pc \in {"prepare", "run", "finalize"} /\ Truthy(options["require_venv"])) =>
          virtual_env = "set"
    /\ BodyRan => (Truthy(options["require_venv"]) => virtual_env = "set")

\* the precondition failed although the user asked for a log file
C4_Witness ==
    /\ Done
    /\ virtual_env = "unset"
    /\ Truthy(options["require_venv"])
    /\ Truthy(options["log"])
    /\ result = Ended("exit", VIRTUALENV_NOT_FOUND, "")

\* C5: when the failure log is written to a path whose file already exists, the
\* file afterwards is its previous content, then a separator line and a
\* timestamp line, then the new log text.
C5_AppendKeepsContent ==
    (Done /\ Persisted /\ result.kind = "returned") =>
        LET f == files[options["log_file"].s]
            text == SubSeq(complete_log, 1, Len(complete_log) - 1)
        IN f.before.exists => f.now.content = f.before.content \o <<Separator, RunStamp>> \o text

\* what can be observed of the options through the global parser
GlobalParserView ==
    [d \in Range(get_all_options(main_parser)) |-> option_objects[d]]

\* C6: building a command parser and resolving its defaults changes nothing
\* that can be observed through the global parser's options.
C6_ParsersIsolated ==
    [][(pc = "instantiate" \/ pc = "cmd_parse") => (GlobalParserView' = GlobalParserView)]_vars

\* C7 as stated: after Merging the verbose and quiet counters equal the number
\* of flags given in global position plus the number given in command position.
C7_FlagsOnly ==
    Merged => /\ options["verbose"].n = FlagCount("verbose")
              /\ options["quiet"].n = FlagCount("quiet")

\* the default a parser resolves for a destination from config file and environment
ResolvedDefault(parser, d) ==
    get_default_values(parser, option_objects, config_file, environ).defaults[d].n

\* C7 as amended: after Merging each counter is the number of flags in both
\* positions plus the default the global parser resolved plus the default the
\* command parser resolved; it is the number of flags when no config or
\* environment entry sets the counter.
C7_FlagsPlusDefaults ==
    Merged => \A d \in {"verbose", "quiet"} :
                 /\ options[d].n = FlagCount(d) + ResolvedDefault(main_parser, d)
                                     + ResolvedDefault(cmd_parser, d)
                 /\ (FromEnv(d) = "" /\ FromCommandSection(d) = "" /\ FromGlobalSection(d) = "")
                       => options[d].n = FlagCount(d)

\* global -v -v plus command -v gives verbosity 3
C7_Witness ==
    /\ Merged
    /\ argv = <<"-v", "-v", "install", "-v">>
    /\ options["verbose"].n = 3

\* C8: Merging gives each carry-over attribute the command-scope value when
\* that value is truthy, and the global-scope value only when it is falsy.
C8_CommandValueFirst ==
    [][pc = "merge" =>
          \A i \in 1..Len(CarryOver) :
              (options'[CarryOver[i]] =
                  PyOr(options[CarryOver[i]], initial_options[CarryOver[i]]))]_vars

\* a parser's merged config holds a value that is not one of the option's kind
BadValueFor(parser, kinds) ==
    LET config == merged_config(parser, config_file, environ) IN
    \E key \in DOMAIN config :
        /\ get_option(parser, key) # ""
        /\ config[key] # ""
        /\ OptionTable[get_option(parser, key)].action \in kinds
        /\ ~Convertible(get_option(parser, key), config[key])
AllActions == {"store", "store_true", "store_false", "count", "append"}
FlagActions == {"store_true", "store_false", "count"}
BadValueResolved(kinds) ==
    \/ BadValueFor(main_parser, kinds)
    \/ (cmd_parser # NoParser /\ BadValueFor(cmd_parser, kinds))

\* C9: a config-file or environment value that cannot be converted ends the
\* process with the configuration-error exit status, and no command body runs.
C9_BadValueExits ==
    (Done /\ BadValueResolved(AllActions)) =>
        (result = Ended("exit", ConfigErrorExit, "") /\ ~BodyRan)

\* C10: for a flag or counter destination, a config string that is neither a
\* truthy nor a falsy word ends the process with the configuration-error exit
\* status, not with an uncaught exception.
C10_BadFlagWordExits ==
    (Done /\ BadValueResolved(FlagActions)) =>
        (result.kind # "raised" /\ result = Ended("exit", ConfigErrorExit, ""))

\* the value the command parser's resolution finds for an option string ("" for none)
CommandConfigValue(opt_str) ==
    LET config == merged_config(cmd_parser, config_file, environ)
    IN IF opt_str \in DOMAIN config THEN config[opt_str] ELSE ""
CommandParsed == pc = "merge"

\* C11: for an append-type destination a non-empty config-file or environment
\* value is split on whitespace and the sequence of its words is the resolved
\* default; an element of the built-in default survives only if it is also a
\* word of the config value.
C11_AppendReplaces ==
    (CommandParsed /\ CommandConfigValue("--command-list") # "") =>
        LET resolved == options["command_list"]
            words == split(CommandConfigValue("--command-list"))
            builtin == OptionTable["command_list"].default.l
        IN /\ resolved.t = "list"
           /\ resolved.l = words
           /\ \A i \in 1..Len(builtin) :
                 builtin[i] \in Range(resolved.l) => builtin[i] \in Range(words)

\* a two-word value was resolved into its two words
C11_Witness ==
    /\ CommandParsed
    /\ CommandConfigValue("--command-list") = "x y"
    /\ options["command_list"] = List(<<"x", "y">>)

\* a config source with its empty entries left out
WithoutEmpty(dict) == [k \in {x \in DOMAIN dict : dict[x] # ""} |-> dict[k]]
FileWithoutEmpty == [sec \in DOMAIN config_file |-> WithoutEmpty(config_file[sec])]
\* the tokens after the command name
CommandPosition == CHOOSE i \in 1..Len(argv) : argv[i] \notin Tokens /\ \A j \in 1..(i - 1) : argv[j] \in Tokens
CommandArgs == SubSeq(argv, CommandPosition + 1, Len(argv))
GlobalParsed == pc = "instantiate"

\* C12: an empty config-file or environment value is ignored: what each parse
\* resolves is what it resolves with the empty entries absent.
C12_EmptyIgnored ==
    /\ GlobalParsed =>
          initial_options = parse_args(main_parser, option_objects, FileWithoutEmpty,
                                       WithoutEmpty(environ), argv).values
    /\ CommandParsed =>
          options = parse_args(cmd_parser, option_objects, FileWithoutEmpty,
                               WithoutEmpty(environ), CommandArgs).values

\* the word in the command's place, and whether its lowercase form is registered
CommandWord == argv[CommandPosition]
Registered == CommandWord \in {"install", "Install"}
\* the global parse got as far as the dispatch
MainParse == parse_args(create_main_parser, InitialOptionObjects, config_file, environ, argv)
DispatchReached == ~parse_failed(MainParse)
NewlinesIn(text) == Cardinality({i \in 1..Len(text) : text[i] = linesep})

\* C16: when the first positional token, lowercased, is not a registered
\* command, dispatch ends with a one-line message on the error stream (with a
\* suggestion exactly when a similar command exists) and the ERROR exit code; no
\* command is instantiated, no body runs and no failure log is persisted.  A
\* registered name in any case is dispatched and writes nothing to the stream.
C16_UnknownCommand ==
    /\ (Done /\ ~Registered /\ DispatchReached) =>
          /\ result = Ended("exit", ERROR, "")
          /\ Len(stderr) >= 4
          /\ stderr[2] = CommandWord
          /\ stderr[Len(stderr)] = linesep /\ NewlinesIn(stderr) = 1
          /\ (CommandWord = "instal") <=> (\E i \in 1..Len(stderr) : stderr[i] = "install")
          /\ cmd_parser = NoParser
          /\ ~BodyRan
          /\ DOMAIN files = {}
    /\ (Registered /\ ~(stderr = <<>> /\ (Done => cmd_parser # NoParser))) => ~DispatchReached

\* a misspelt command was answered with the suggestion
C16_Witness ==
    /\ Done
    /\ CommandWord = "instal"
    /\ result = Ended("exit", ERROR, "")
    /\ \E i \in 1..Len(stderr) : stderr[i] = "install"

\* from_dist has been applied to dist; it returned a record
Reconstructed == frozen.by = "from_dist"
Returned == Reconstructed /\ frozen.made
\* the plain pin of the distribution
PlainPin == <<dist.project_name, "==">> \o dist.version
BackendOwned == dist.backend_name # ""

\* C13: when a VCS backend owns the location, reconstruction yields an editable
\* record whose requirement is the locator the backend produced; when the
\* backend produces none, it yields the non-editable plain pin with a warning
\* comment appended.
C13_BackendOwned ==
    (Reconstructed /\ BackendOwned) =>
        /\ frozen.made /\ frozen.name = dist.project_name
        /\ (dist.src_requirement # <<>>) =>
              (frozen.editable /\ frozen.req = dist.src_requirement /\ frozen.comments = <<>>)
        /\ (dist.src_requirement = <<>>) =>
              /\ ~frozen.editable
              /\ frozen.req = PlainPin
              /\ frozen.comments = <<NoLocationComment>>

\* a backend owned the location and produced no locator
C13_Witness ==
    /\ Returned /\ BackendOwned /\ dist.src_requirement = <<>>
    /\ ~frozen.editable /\ frozen.comments # <<>>

\* a requirement embeds a VCS locator followed by a revision
LocatorUrls == {"git+http://host/repo.git", "svn+http://host/repo"}
EmbedsLocatorAndRevision(req) ==
    \E i \in 1..(Len(req) - 2) :
        req[i] \in LocatorUrls /\ req[i + 1] = "@" /\ req[i + 2] # "#egg="

\* C14: every record the reconstructor returns is either editable with a
\* requirement that embeds a VCS locator and a revision, or non-editable with
\* exactly the plain pin name==version.
C14_RecordInvariant ==
    Returned =>
        /\ frozen.editable => EmbedsLocatorAndRevision(frozen.req)
        /\ ~frozen.editable => frozen.req = PlainPin

\* the legacy-suffix path returned an editable record with the svn location
C14_Witness ==
    /\ Returned /\ ~BackendOwned /\ frozen.editable
    /\ frozen.req[1] = "svn+http://host/repo"
    /\ dist.version = <<"1", ".", "2", "-", "r", "4", "5">>
    /\ frozen.req = <<"svn+http://host/repo", "@", "4", "5", "#egg=", dist.project_name, "-",
                       "1", ".", "2", "_", "r", "4", "5">>

\* the versions that carry a legacy suffix
LegacyVersions ==
    {<<"1", ".", "2", "-", "r", "4", "5">>,
     <<"1", ".", "2", "-", "2", "0", "1", "0", "0", "1", "0", "1">>}

\* C15: for a distribution no backend owns whose version carries a legacy
\* suffix, when no svn location can be obtained (the svn backend returns none,
\* or is not registered) reconstruction returns the non-editable plain pin with
\* the comment that flags the missing source URL.
C15_NoLegacyLocation ==
    (/\ Reconstructed /\ ~BackendOwned /\ dist.version \in LegacyVersions
     /\ (~dist.svn_registered \/ dist.svn_location = "")) =>
        /\ frozen.raised = "" /\ frozen.made
        /\ ~frozen.editable
        /\ frozen.req = PlainPin
        /\ frozen.comments = <<NoSvnUrlComment>>

\* str.split on the line separator
RECURSIVE SplitLines(_, _)
SplitLines(text, line) ==
    IF text = <<>> THEN <<line>>
    ELSE IF Head(text) = "\n" THEN <<line>> \o SplitLines(Tail(text), <<>>)
    ELSE SplitLines(Tail(text), Append(line, Head(text)))
Rendered == pc = "rendered"

\* C17: the rendering is the comment lines in order, one per line, then the
\* requirement line, which starts with the marker "-e " exactly when the record
\* is editable, and it ends with exactly one newline; a plain 1.2.3 distribution
\* without comments renders as name==1.2.3 and one newline.
C17_Rendering ==
    Rendered =>
        LET lines == SplitLines(rendered, <<>>)
            k == Len(frozen.comments)
        IN /\ Len(lines) = k + 2
           /\ \A i \in 1..k : lines[i] = frozen.comments[i]
           /\ lines[k + 1] = (IF frozen.editable THEN <<"-e ">> ELSE <<>>) \o frozen.req
           /\ lines[k + 2] = <<>>
           /\ (Reconstructed /\ ~BackendOwned /\ dist.version = <<"1", ".", "2", ".", "3">>) =>
                 rendered = <<dist.project_name, "==", "1", ".", "2", ".", "3", "\n">>

\* an editable record with two comments was rendered
C17_Witness ==
    /\ Rendered /\ frozen.editable /\ Len(frozen.comments) = 2
    /\ frozen.comments[1] # frozen.comments[2]
    /\ rendered[Len(rendered)] = "\n"

\* the get_default_values calls of the history on one parser
ResolutionsOf(name) ==
    {i \in 1..Len(resolutions) :
        resolutions[i].call = "get_default_values" /\ resolutions[i].parser = name}
Outcome(i) ==
    [raised |-> resolutions[i].raised, exit |-> resolutions[i].exit,
     defaults |-> resolutions[i].defaults]

\* C18: resolving defaults again on the same parser with the same config file
\* and environment gives the same resolved options, whatever resolutions and
\* help-formatting passes came before.
C18_ResolveTwice ==
    \A name \in {"global", "install"} :
        \A i, j \in ResolutionsOf(name) : Outcome(i) = Outcome(j)

\* a list-valued default was resolved, written into the parser's own defaults by
\* a help-formatting pass, and resolved again
C18_Witness ==
    /\ Len(resolutions) = 3
    /\ resolutions[1].call = "get_default_values" /\ resolutions[1].parser = "install"
    /\ resolutions[2].call = "expand_default" /\ resolutions[2].parser = "install"
    /\ resolutions[3].call = "get_default_values" /\ resolutions[3].parser = "install"
    /\ resolutions[3].defaults["command_list"] = List(<<"x", "y">>)
    /\ cmd_parser.defaults["command_list"] = List(<<"x", "y">>)

\* C19: once the user's log file is closed it is no longer a sink of the
\* logger, so the message that reports where the failure log is stored is not
\* sent to it and the failure log is persisted with or without a user log file.
C19_ClosedSinkSilent ==
    (Done /\ store_log) =>
        /\ (log_fp = "closed" => "log_fp" \notin Range(logger_consumers))
        /\ result = Ended("returned", exit, "")
        /\ Persisted

\* C20: with no flag on the command line and no entry in the command's own
\* section, an environment variable or global-section entry that sets verbose
\* (or quiet) to 1 gives an effective counter of 1 after Merging.
NamedIn(dict, d) == DOMAIN normalize_keys(dict) \cap OptionTable[d].strings # {}
C20_ConfigCountsOnce ==
    Merged => \A d \in {"verbose", "quiet"} :
                 (/\ FlagCount(d) = 0
                  /\ ~NamedIn(config_file["install"], d)
                  /\ \/ FromEnv(d) = "1"
                     \/ FromEnv(d) = "" /\ FromGlobalSection(d) = "1")
                    => options[d].n = 1

\* the version ends with -r and one or more digits
EndsWithRevision(v) ==
    \E k \in 1..(Len(v) - 2) :
        /\ v[Len(v) - k - 1] = "-" /\ v[Len(v) - k] = "r"
        /\ \A j \in (Len(v) - k + 1)..Len(v) : v[j] \in Digits
\* the version ends with - and exactly eight digits
EndsWithDate(v) ==
    /\ Len(v) >= 9
    /\ v[Len(v) - 8] = "-"
    /\ \A j \in (Len(v) - 7)..Len(v) : v[j] \in Digits
\* ... of which the first two are 2 and 0
EndsWithDate20(v) == EndsWithDate(v) /\ v[Len(v) - 7] = "2" /\ v[Len(v) - 6] = "0"
\* the record from_dist gives when no heuristic fires
PlainRecord == FrozenRequirement("from_dist", dist.project_name, PlainPin, FALSE, <<>>)
ReleaseReconstructed == Reconstructed /\ ~BackendOwned

\* C21 as stated: for a distribution no backend owns, the legacy heuristic fires
\* exactly when the version ends with -r<digits> or with - and any eight
\* digits; in every other case the record is the plain pin with no comments.
C21_AnyEightDigits ==
    ReleaseReconstructed =>
        ((frozen # PlainRecord) <=>
            (EndsWithRevision(dist.version) \/ EndsWithDate(dist.version)))

\* C21 as amended: the heuristic fires exactly when the version ends with
\* -r<digits> or with - and eight digits of which the first two are 20; in
\* every other case the record is the plain pin with no comments.
C21_LegacySuffix ==
    ReleaseReconstructed =>
        IF EndsWithRevision(dist.version) \/ EndsWithDate20(dist.version)
        THEN frozen # PlainRecord /\ (frozen.made => Len(frozen.comments) = 1)
        ELSE frozen = PlainRecord

\* a trailing date of this century made the record editable, and a trailing
\* date of the last one is known to the model
C21_Witness ==
    /\ ReleaseReconstructed
    /\ dist.version = <<"1", "-", "2", "0", "1", "0", "0", "1", "0", "1">>
    /\ frozen.made /\ frozen.editable

\* the revision inside an editable requirement: what stands between @ and #egg=
RevisionOf(req) ==
    LET at == CHOOSE i \in 1..Len(req) : req[i] = "@"
        egg == CHOOSE i \in 1..Len(req) : req[i] = "#egg="
    IN SubSeq(req, at + 1, egg - 1)
\* the digits a version ends with
RECURSIVE TrailingDigits(_)
TrailingDigits(v) ==
    IF v = <<>> \/ v[Len(v)] \notin Digits THEN <<>>
    ELSE Append(TrailingDigits(SubSeq(v, 1, Len(v) - 1)), v[Len(v)])
LegacyEditable == ReleaseReconstructed /\ frozen.made /\ frozen.editable

\* C24: no version matches both legacy patterns, and the revision of a legacy
\* editable requirement is the bare digits when the revision marker matches and
\* the braced date when the date marker matches.
C24_RevisionUnambiguous ==
    /\ ~(rev_re(dist.version) # <<>> /\ date_re(dist.version) # <<>>)
    /\ LegacyEditable =>
          /\ EndsWithRevision(dist.version) =>
                RevisionOf(frozen.req) = TrailingDigits(dist.version)
          /\ EndsWithDate20(dist.version) =>
                RevisionOf(frozen.req) = <<"{">> \o TrailingDigits(dist.version) \o <<"}">>

\* a revision marker followed by eight digits that read as a date gave the bare
\* digits
C24_Witness ==
    /\ LegacyEditable
    /\ dist.version = <<"1", "-", "r", "2", "0", "1", "0", "0", "1", "0", "1">>
    /\ RevisionOf(frozen.req) = <<"2", "0", "1", "0", "0", "1", "0", "1">>

\* the destinations of a parser, and of its groups by title
DestsOf(parser) == Range(get_all_options(parser))
GroupedUnder(parser, title) ==
    UNION {Range(g.option_list) : g \in {x \in Range(parser.option_groups) : x.title = title}}
Carried(dests) == dests \ {"help", ""}
CommandBuilt == cmd_parser # NoParser

\* C22: a command parser holds every destination of the global parser except
\* help and no option without a destination; grouped global options are in a
\* group of the same title, ungrouped ones are the parser's own.
C22_CommandParserOptions ==
    CommandBuilt =>
        /\ Carried(DestsOf(main_parser)) \subseteq DestsOf(cmd_parser)
        /\ "help" \notin DestsOf(cmd_parser)
        /\ "" \notin DestsOf(cmd_parser)
        /\ \A g \in Range(main_parser.option_groups) :
              Carried(Range(g.option_list)) \subseteq GroupedUnder(cmd_parser, g.title)
        /\ Carried(Range(main_parser.option_list)) \subseteq Range(cmd_parser.option_list)
        /\ \A d \in Carried(DestsOf(main_parser)) :
              d \in Range(main_parser.option_list) <=> d \in Range(cmd_parser.option_list)

\* a command parser built from a main parser with a destination-less option in
\* its group and another among its own options
C22_Witness ==
    /\ CommandBuilt
    /\ "" \in Range(main_parser.option_list)
    /\ "" \in GroupedUnder(main_parser, GeneralTitle)
    /\ GroupedUnder(cmd_parser, GeneralTitle) =
          {"version", "verbose", "quiet", "log", "proxy", "timeout"}
    /\ Range(cmd_parser.option_list) = Range(main_option_list)

\* the invocation has reached Running: the body is about to start, or has run
ReachedRunning == pc = "run" \/ pc = "finalize" \/ (Done /\ BodyRan)
\* the socket timeout the merged options ask for
MergedTimeout == IF Truthy(options["timeout"]) THEN options["timeout"] ELSE PyNone

\* C23: in every invocation that reaches Running the socket timeout and the
\* proxy have each been set exactly once, before the body starts, from the
\* merged options, and are not set again during Running, Finalizing or Done.
C23_NetworkSetOnce ==
    /\ ReachedRunning =>
          /\ net.timeout_sets = 1 /\ net.timeout = MergedTimeout
          /\ net.proxy_sets = 1 /\ net.proxy = options["proxy"]
    /\ ~ReachedRunning => (net.timeout_sets = 0 /\ net.proxy_sets = 0)

\* the body failed and the run was finalized with the timeout of the command
\* line still the one set before the body
C23_Witness ==
    /\ Done /\ BodyRan
    /\ outcome.kind = "InstallationError"
    /\ "--timeout=30" \in Range(argv)
    /\ net.timeout_sets = 1 /\ net.timeout.n = 30
    /\ net.proxy_sets = 1

====
